---- MODULE Spec2Model ----
(***************************************************************************)
(* Model of load_data.py: T5Dataset (process_data, __len__, __getitem__),  *)
(* normal_collate_fn, test_collate_fn and get_dataloader.                  *)
(*                                                                         *)
(* A file is a sequence of raw lines, a line a sequence of symbols: a      *)
(* symbol is either the blank " " or one piece of the tokenizer's          *)
(* vocabulary.  A tensor of rank 1 is a sequence of ids, a tensor of rank  *)
(* 2 a sequence of rows.  Python's None is the empty set and a present     *)
(* value x is {x}, so that None and the empty tensor are different values. *)
(***************************************************************************)
EXTENDS Integers, Sequences, FiniteSets, TLC

VARIABLES split, nl_file, sql_file, pc, sql_read,
          encoder_inputs, decoder_inputs, decoder_targets,
          batch, collate_used, out_status, out

vars == <<split, nl_file, sql_file, pc, sql_read,
          encoder_inputs, decoder_inputs, decoder_targets,
          batch, collate_used, out_status, out>>

\* ---------------------------------------------------------------- bounds
MaxLines == 2
MaxBatch == 2

\* ------------------------------------------------------------- constants
PAD_IDX == 0

Splits == {"train", "dev", "test"}

\* Raw lines a question file may hold: empty, blank-padded, one and two
\* words, and a line that spells the tokenizer's pad token.
QuestionLines ==
  { <<>>,
    <<"list">>,
    <<" ", "list", " ", "flights">>,
    <<"list", "<pad>", "flights", " ">> }

\* Raw lines a SQL file may hold.
SqlLines ==
  { <<>>,
    <<"select">>,
    <<"select", " ", "from", " ">> }

\* ------------------------------------------------------------- tokenizer
\* T5TokenizerFast.get_vocab(): pieces to ids.  <pad>, </s> and <unk> are the
\* first three ids of the T5 vocabulary and <extra_id_0> is its last id.
get_vocab ==
  [w \in {"<pad>", "</s>", "<unk>", "list", "flights", "select", "from", "<extra_id_0>"} |->
     CASE w = "<pad>" -> 0
       [] w = "</s>" -> 1
       [] w = "<unk>" -> 2
       [] w = "list" -> 3
       [] w = "flights" -> 4
       [] w = "select" -> 5
       [] w = "from" -> 6
       [] w = "<extra_id_0>" -> 7]

bos_token_id == get_vocab["<extra_id_0>"]

eos_token_id == get_vocab["</s>"]

IsBlank(c) == c = " "

NotBlank(c) == ~IsBlank(c)

\* tokenizer.encode(text, add_special_tokens=True).squeeze(0): the ids of the
\* pieces of the text, blanks separating pieces, then the end-of-sequence id.
encode(text) ==
  LET pieces == SelectSeq(text, NotBlank)
  IN [k \in 1..Len(pieces) |-> get_vocab[pieces[k]]] \o <<eos_token_id>>

\* ------------------------------------------------------------ load_lines
RECURSIVE lstrip(_)
lstrip(line) ==
  IF line # <<>> /\ IsBlank(Head(line)) THEN lstrip(Tail(line)) ELSE line

RECURSIVE rstrip(_)
rstrip(line) ==
  IF line # <<>> /\ IsBlank(line[Len(line)])
  THEN rstrip(SubSeq(line, 1, Len(line) - 1))
  ELSE line

strip(line) == rstrip(lstrip(line))

load_lines(file) == [k \in 1..Len(file) |-> strip(file[k])]

\* --------------------------------------------------------------- helpers
NoneVal == {}

Some(x) == {x}

Unwrap(o) == CHOOSE x \in o : TRUE

Min2(a, b) == IF a <= b THEN a ELSE b

\* zip(a, b): pairs up to the shorter of the two lists
zip(a, b) == [k \in 1..Min2(Len(a), Len(b)) |-> <<a[k], b[k]>>]

MaxLen(seqs) ==
  CHOOSE m \in {Len(seqs[k]) : k \in 1..Len(seqs)} :
    \A k \in 1..Len(seqs) : Len(seqs[k]) <= m

Repeat(v, n) == [k \in 1..n |-> v]

\* ------------------------------------------------------------ T5Dataset
\* variant: the last SQL id is not dropped
labeled_decoder_input_keeps_last(tokenized_sql) ==
  <<bos_token_id>> \o tokenized_sql

\* variant: the SQL ids are shifted without the BOS id in front
labeled_decoder_input_no_bos(tokenized_sql) ==
  SubSeq(tokenized_sql, 1, Len(tokenized_sql) - 1)

\* decoder input of a labeled example: BOS, then the SQL ids without the last
labeled_decoder_input(tokenized_sql) ==
  <<bos_token_id>> \o SubSeq(tokenized_sql, 1, Len(tokenized_sql) - 1)

\* decoder input of a test example: the BOS id alone
test_decoder_input == <<bos_token_id>>

\* the .sql file is opened only for the labeled splits
reads_sql(sp) == sp # "test"

sql_queries_of(sp, nl_queries, sqlf) ==
  IF reads_sql(sp) THEN load_lines(sqlf) ELSE Repeat(<<>>, Len(nl_queries))

\* T5Dataset.process_data: the three lists, one entry per zipped line pair
process_data(sp, nlf, sqlf) ==
  LET nl_queries  == load_lines(nlf)
      sql_queries == sql_queries_of(sp, nl_queries, sqlf)
      pairs       == zip(nl_queries, sql_queries)
      n           == Len(pairs)
  IN [ encoder_inputs  |-> [k \in 1..n |-> encode(pairs[k][1])],
       decoder_inputs  |-> [k \in 1..n |->
                              IF sp # "test"
                              THEN labeled_decoder_input(encode(pairs[k][2]))
                              ELSE test_decoder_input],
       decoder_targets |-> [k \in 1..n |->
                              IF sp # "test" THEN encode(pairs[k][2]) ELSE <<>>] ]

\* T5Dataset.__len__
len == Len(encoder_inputs)

\* variant: the stored target is handed out on every split
getitem_stored_target(idx) ==
  <<encoder_inputs[idx], decoder_inputs[idx], Some(decoder_targets[idx])>>

\* T5Dataset.__getitem__: the stored target for a labeled split, None for test
getitem(idx) ==
  IF split # "test"
  THEN <<encoder_inputs[idx], decoder_inputs[idx], Some(decoder_targets[idx])>>
  ELSE <<encoder_inputs[idx], decoder_inputs[idx], NoneVal>>

\* ---------------------------------------------------------------- collate
\* variant: padding goes in front of the row
pad_sequence_left(seqs, padding_value) ==
  LET max_len == MaxLen(seqs)
  IN [k \in 1..Len(seqs) |->
        Repeat(padding_value, max_len - Len(seqs[k])) \o seqs[k]]

\* torch pad_sequence(batch_first=True): every row right-padded to the longest
pad_sequence(seqs, padding_value) ==
  LET max_len == MaxLen(seqs)
  IN [k \in 1..Len(seqs) |->
        seqs[k] \o Repeat(padding_value, max_len - Len(seqs[k]))]

\* pad_sequence raises on an empty list of sequences
pad_sequence_raises(seqs) == seqs = <<>>

\* variant: the comparison is inverted
encoder_mask_inverted(encoder_ids) ==
  [i \in 1..Len(encoder_ids) |->
     [j \in 1..Len(encoder_ids[i]) |->
        IF encoder_ids[i][j] = PAD_IDX THEN 1 ELSE 0]]

\* (encoder_ids != PAD_IDX).float()
encoder_mask_of(encoder_ids) ==
  [i \in 1..Len(encoder_ids) |->
     [j \in 1..Len(encoder_ids[i]) |->
        IF encoder_ids[i][j] # PAD_IDX THEN 1 ELSE 0]]

\* variant: the last token of each decoder input is taken
initial_decoder_inputs_last(dec_inputs) ==
  [i \in 1..Len(dec_inputs) |-> dec_inputs[i][Len(dec_inputs[i])]]

\* torch.tensor([decoder_inputs[i][0] for i in range(len(decoder_inputs))])
initial_decoder_inputs_of(dec_inputs) ==
  [i \in 1..Len(dec_inputs) |-> dec_inputs[i][1]]

Raised == [raised |-> TRUE, value |-> <<>>]

Returned(v) == [raised |-> FALSE, value |-> v]

\* normal_collate_fn: pads the three fields; a None target cannot be padded
normal_collate_fn(b) ==
  LET enc == [k \in 1..Len(b) |-> b[k][1]]
      dec == [k \in 1..Len(b) |-> b[k][2]]
      tgt == [k \in 1..Len(b) |-> b[k][3]]
  IN IF pad_sequence_raises(enc) \/ pad_sequence_raises(dec)
        \/ pad_sequence_raises(tgt) \/ (\E k \in 1..Len(b) : tgt[k] = NoneVal)
     THEN Raised
     ELSE LET encoder_ids == pad_sequence(enc, PAD_IDX)
          IN Returned(<< encoder_ids,
                         encoder_mask_of(encoder_ids),
                         pad_sequence(dec, PAD_IDX),
                         pad_sequence([k \in 1..Len(b) |-> Unwrap(tgt[k])], PAD_IDX),
                         initial_decoder_inputs_of(dec) >>)

\* variant: the seed tokens are read from item[0] instead of item[1]
test_collate_fn_seed_from_encoder(b) ==
  LET enc == [k \in 1..Len(b) |-> b[k][1]]
  IN IF pad_sequence_raises(enc)
     THEN Raised
     ELSE LET encoder_ids == pad_sequence(enc, PAD_IDX)
          IN Returned(<< encoder_ids,
                         encoder_mask_of(encoder_ids),
                         initial_decoder_inputs_of(enc) >>)

\* test_collate_fn: pads the encoder inputs only; item[2] is never touched
test_collate_fn(b) ==
  LET enc == [k \in 1..Len(b) |-> b[k][1]]
      dec == [k \in 1..Len(b) |-> b[k][2]]
  IN IF pad_sequence_raises(enc)
     THEN Raised
     ELSE LET encoder_ids == pad_sequence(enc, PAD_IDX)
          IN Returned(<< encoder_ids,
                         encoder_mask_of(encoder_ids),
                         initial_decoder_inputs_of(dec) >>)

\* --------------------------------------------------------- get_dataloader
shuffle(sp) == sp = "train"

collate_fn_name(sp) == IF sp # "test" THEN "normal_collate_fn" ELSE "test_collate_fn"

collate(name, b) ==
  IF name = "normal_collate_fn" THEN normal_collate_fn(b) ELSE test_collate_fn(b)

SeqsUpTo(S, n) == UNION {[1..k -> S] : k \in 0..n}

\* index lists the DataLoader hands to the dataset: a run of consecutive
\* indices, or any list of distinct indices when the sampler shuffles
BatchIndices(sp, n) ==
  { idxs \in SeqsUpTo(1..n, MaxBatch) :
      /\ idxs # <<>>
      /\ IF shuffle(sp)
         THEN \A i, j \in 1..Len(idxs) : i # j => idxs[i] # idxs[j]
         ELSE \A i \in 1..Len(idxs) - 1 : idxs[i + 1] = idxs[i] + 1 }

\* ------------------------------------------------------------------ Init
Init ==
  /\ split \in Splits
  /\ nl_file \in SeqsUpTo(QuestionLines, MaxLines)
  /\ sql_file \in (IF split = "test" THEN {<<>>} ELSE SeqsUpTo(SqlLines, MaxLines))
  /\ pc = "new"
  /\ sql_read = FALSE
  /\ encoder_inputs = <<>>
  /\ decoder_inputs = <<>>
  /\ decoder_targets = <<>>
  /\ batch = <<>>
  /\ collate_used = "none"
  /\ out_status = "none"
  /\ out = <<>>

\* T5Dataset(data_folder, split): __init__ runs process_data
Construct ==
  /\ pc = "new"
  /\ LET d == process_data(split, nl_file, sql_file)
     IN /\ encoder_inputs' = d.encoder_inputs
        /\ decoder_inputs' = d.decoder_inputs
        /\ decoder_targets' = d.decoder_targets
  /\ sql_read' = reads_sql(split)
  /\ pc' = "built"
  /\ UNCHANGED <<split, nl_file, sql_file, batch, collate_used, out_status, out>>

\* one step of the DataLoader: fetch the items, then call the collate function
FetchBatch ==
  /\ pc = "built"
  /\ \E idxs \in BatchIndices(split, len) :
       LET items == [k \in 1..Len(idxs) |-> getitem(idxs[k])]
           r     == collate(collate_fn_name(split), items)
       IN /\ batch' = items
          /\ collate_used' = collate_fn_name(split)
          /\ out_status' = IF r.raised THEN "raised" ELSE "returned"
          /\ out' = r.value
  /\ UNCHANGED <<split, nl_file, sql_file, pc, sql_read,
                 encoder_inputs, decoder_inputs, decoder_targets>>

\* the split's collate function called on an empty list of examples
CollateEmpty ==
  /\ pc = "built"
  /\ LET r == collate(collate_fn_name(split), <<>>)
     IN /\ batch' = <<>>
        /\ collate_used' = collate_fn_name(split)
        /\ out_status' = IF r.raised THEN "raised" ELSE "returned"
        /\ out' = r.value
  /\ UNCHANGED <<split, nl_file, sql_file, pc, sql_read,
                 encoder_inputs, decoder_inputs, decoder_targets>>

Next == Construct \/ FetchBatch \/ CollateEmpty

Spec == Init /\ [][Next]_vars

\* ============================================================ properties
Built == pc = "built"

Labeled == split # "test"

\* a collate function has been called on a non-empty list of fetched items
Collated == out_status # "none" /\ batch # <<>>

RightPadded(row, seq) ==
  /\ Len(row) >= Len(seq)
  /\ SubSeq(row, 1, Len(seq)) = seq
  /\ \A j \in (Len(seq) + 1)..Len(row) : row[j] = PAD_IDX

\* T is the largest length of field f among the items of the batch
IsBatchMax(T, f) ==
  /\ \E k \in 1..Len(batch) : Len(batch[k][f]) = T
  /\ \A k \in 1..Len(batch) : Len(batch[k][f]) <= T

\* the entries of row at the positions where mask is 1, in order
KeepMasked(row, mask) ==
  LET pos == SelectSeq([j \in 1..Len(row) |-> j], LAMBDA j : mask[j] = 1)
  IN [k \in 1..Len(pos) |-> row[pos[k]]]

\* the same encoder and decoder inputs, with a paddable target in every item
WithTargets(b) ==
  [k \in 1..Len(b) |->
     <<b[k][1], b[k][2], IF b[k][3] = NoneVal THEN Some(<<>>) ELSE b[k][3]>>]

\* C1: on a labeled split every stored example has decoder_input = [BOS] +
\* tokenized_sql[:-1] and decoder_target = tokenized_sql, so that
\* decoder_input[i+1] = decoder_target[i], and encoder_input is the tokenized
\* question and ends in the end-of-sequence id.
C1_ShiftedDecoderFraming ==
  (Built /\ Labeled) =>
    \A i \in 1..len :
      LET tokenized_sql == encode(strip(sql_file[i]))
      IN /\ decoder_inputs[i] =
              <<bos_token_id>> \o SubSeq(tokenized_sql, 1, Len(tokenized_sql) - 1)
         /\ decoder_targets[i] = tokenized_sql
         /\ \A k \in 1..(Len(decoder_targets[i]) - 1) :
              decoder_inputs[i][k + 1] = decoder_targets[i][k]
         /\ encoder_inputs[i] = encode(strip(nl_file[i]))
         /\ encoder_inputs[i][Len(encoder_inputs[i])] = eos_token_id

C1_Witness ==
  /\ Built /\ Labeled
  /\ \E i \in 1..len : Len(decoder_targets[i]) = 3 /\ Len(encoder_inputs[i]) = 4

\* C2 (as claimed): a labeled split whose question and SQL files differ in
\* their number of lines never yields a built dataset.
C2_MismatchIsFatal ==
  (Labeled /\ Len(nl_file) # Len(sql_file)) => ~Built

\* C3: on a labeled split decoder_input and decoder_target have the same
\* length, in the stored lists and in the items __getitem__ hands out, also
\* for an empty SQL line.
C3_EqualDecoderLengths ==
  (Built /\ Labeled) =>
    /\ \A i \in 1..len : Len(decoder_inputs[i]) = Len(decoder_targets[i])
    /\ \A k \in 1..Len(batch) : Len(batch[k][2]) = Len(Unwrap(batch[k][3]))

C3_Witness ==
  /\ Built /\ Labeled /\ Len(batch) = 2
  /\ batch[1][3] = Some(<<eos_token_id>>)
  /\ Len(batch[2][2]) = 3

\* C4: the first decoder input of every stored example of every split is the
\* BOS id, and the initial_decoder_inputs a collate function returns for a
\* batch of size B is a vector of B BOS ids.
C4_DecoderStartsWithBos ==
  Built =>
    /\ \A i \in 1..len : decoder_inputs[i][1] = bos_token_id
    /\ out_status = "returned" =>
         LET initial_decoder_inputs == out[Len(out)]
         IN /\ Len(initial_decoder_inputs) = Len(batch)
            /\ \A i \in 1..Len(batch) : initial_decoder_inputs[i] = bos_token_id

C4_Witness ==
  /\ out_status = "returned" /\ collate_used = "normal_collate_fn"
  /\ Len(batch) = 2
  /\ Len(batch[1][2]) = 3

\* C5 (as claimed): on the test split the target is the empty sequence and
\* the decoder input is the single BOS id, both in the stored lists and in
\* the items __getitem__ hands out, and the .sql file is never read.
C5_TestTargetEmptyEverywhere ==
  (Built /\ split = "test") =>
    /\ ~sql_read
    /\ \A i \in 1..len : decoder_targets[i] = <<>> /\ Len(decoder_inputs[i]) = 1
    /\ \A k \in 1..Len(batch) : batch[k][3] = Some(<<>>) /\ Len(batch[k][2]) = 1

\* C5 (amended): on the test split the stored target is the empty sequence
\* and the decoder input is the single BOS id; __getitem__ hands out that
\* decoder input and None in place of the target; the .sql file is never read.
C5_TestTargetStoredEmptyHandedNone ==
  (Built /\ split = "test") =>
    /\ ~sql_read
    /\ \A i \in 1..len :
         decoder_targets[i] = <<>> /\ decoder_inputs[i] = <<bos_token_id>>
    /\ \A k \in 1..Len(batch) :
         batch[k][3] = NoneVal /\ batch[k][2] = <<bos_token_id>>

C5_Witness ==
  /\ Built /\ split = "test" /\ len = 2 /\ Len(batch) = 2

\* C6: normal_collate_fn on a non-empty batch returns encoder_ids of shape
\* B x T_enc and decoder inputs and targets of shape B x T_dec, T_enc and T_dec
\* the largest lengths in this batch, row i being example i followed by pads.
C6_DynamicRightPadding ==
  (out_status = "returned" /\ collate_used = "normal_collate_fn") =>
    LET B == Len(batch)
        T_enc == Len(out[1][1])
        T_dec == Len(out[3][1])
    IN /\ B >= 1
       /\ IsBatchMax(T_enc, 1)
       /\ IsBatchMax(T_dec, 2)
       /\ Len(out[1]) = B /\ Len(out[3]) = B /\ Len(out[4]) = B
       /\ \A i \in 1..B :
            /\ Len(out[1][i]) = T_enc
            /\ Len(out[3][i]) = T_dec
            /\ Len(out[4][i]) = T_dec
            /\ RightPadded(out[1][i], batch[i][1])
            /\ RightPadded(out[3][i], batch[i][2])
            /\ RightPadded(out[4][i], Unwrap(batch[i][3]))

C6_Witness ==
  /\ out_status = "returned" /\ collate_used = "normal_collate_fn"
  /\ Len(batch) = 2
  /\ Len(batch[1][1]) < Len(batch[2][1])
  /\ Len(batch[1][2]) > Len(batch[2][2])

\* C7: in every returned batch encoder_mask has the shape of encoder_ids and
\* is 1 exactly where encoder_ids differs from PAD_IDX, and 0 elsewhere.
C7_MaskIffNotPad ==
  out_status = "returned" =>
    /\ Len(out[2]) = Len(out[1])
    /\ \A i \in 1..Len(out[1]) :
         /\ Len(out[2][i]) = Len(out[1][i])
         /\ \A j \in 1..Len(out[1][i]) :
              /\ out[2][i][j] \in {0, 1}
              /\ (out[2][i][j] = 1) <=> (out[1][i][j] # PAD_IDX)

C7_Witness ==
  /\ out_status = "returned" /\ collate_used = "test_collate_fn"
  /\ \E i \in 1..Len(out[1]) : \E j \in 1..Len(out[1][i]) :
       out[1][i][j] = PAD_IDX /\ out[2][i][j] = 0

\* C8 (as claimed): keeping the entries of row i of encoder_ids at the
\* positions where encoder_mask is 1 gives back example i's tokenized encoder
\* sequence.
C8_MaskRoundTrip ==
  (out_status = "returned") =>
    \A i \in 1..Len(batch) : KeepMasked(out[1][i], out[2][i]) = batch[i][1]

\* C9 (as claimed): a split of zero lines builds a dataset of length 0, and
\* collating its empty list of examples returns a batch of size 0.
C9_EmptySplitCollates ==
  (Built /\ nl_file = <<>>) =>
    /\ len = 0
    /\ out_status # "none" =>
         /\ out_status = "returned"
         /\ \A f \in 1..Len(out) : Len(out[f]) = 0

\* C10: test_collate_fn returns three outputs, equal to encoder_ids,
\* encoder_mask and initial_decoder_inputs of normal_collate_fn on a batch of
\* the same encoder and decoder inputs; it returns on items whose target is
\* None; get_dataloader picks it exactly for the test split.
C10_TestCollateRestrictsNormal ==
  /\ out_status # "none" => ((collate_used = "test_collate_fn") <=> (split = "test"))
  /\ Collated =>
       LET t == test_collate_fn(batch)
           n == normal_collate_fn(WithTargets(batch))
       IN /\ ~t.raised /\ ~n.raised
          /\ Len(t.value) = 3
          /\ t.value = <<n.value[1], n.value[2], n.value[5]>>
          /\ split = "test" =>
               /\ \A k \in 1..Len(batch) : batch[k][3] = NoneVal
               /\ out_status = "returned"
               /\ out = t.value
          /\ split # "test" =>
               /\ out_status = "returned"
               /\ <<out[1], out[2], out[5]>> = t.value

C10_Witness ==
  /\ split = "test" /\ out_status = "returned"
  /\ Len(batch) = 2 /\ Len(out) = 3
  /\ Len(batch[1][1]) # Len(batch[2][1])

====
